---------------------------- MODULE Spec2Model ----------------------------
(***************************************************************************)
(* The OS simulator (src/main.cpp): the CPU scheduler, Round-Robin and    *)
(* non-preemptive SJF over a table of process control blocks; the memory   *)
(* manager, FIFO and LRU over a pool of frames; and the commands new,      *)
(* kill, set_sched, set_pagemode, tick and run of main() that drive them.  *)
(***************************************************************************)
EXTENDS Integers, Sequences, FiniteSets, TLC

(* ------------------------------ bounds -------------------------------- *)
\* number of processes the driver creates
MaxProcs == 2
\* largest burst given to "new"
MaxBurst == 3
\* largest quantum given to "set_sched RR"
MaxQuantum == 2
\* number of interactive "tick" commands
MaxTick == 2
\* total burst the driver asks for over the session
MaxWork == 4
\* largest frame pool a MemoryManager is constructed with
MaxFrames == 2
\* largest page number passed to access_page
MaxPage == 1
\* number of access_page calls
MaxAccess == 5
\* longest access trace given to "new"
MaxTraceLen == 2
\* number of times the traced process is reported running
MaxRuns == 4

(* ------------------------- program constants -------------------------- *)
\* PCB::inicio_tick and PCB::fin_tick before they are stamped
Unset == -1
\* Scheduler sched(CPUPolicy::RR, 2) in main()
DefaultQuantum == 2
\* set_sched SJF passes quantum 0
SJFQuantum == 0
\* Frame::pid, page, loaded_at_tick and last_access_tick of a free frame
NoFrame == -1
\* MemoryManager mem(8, ReplPolicy::FIFO) in main()
DefaultFrames == 8
\* PCB::npages when "new" is given the burst only
DefaultPages == 4
\* Scheduler::next_pid before the first create_process
FirstPid == 1

\* std::optional<int>: the empty sequence is nullopt, <<v>> holds v
None == << >>
Some(v) == << v >>
HasValue(o) == o # << >>

\* bursts the driver passes to new: the positive bursts of the interface
BurstValues == 1 .. MaxBurst
\* quanta the driver passes to set_sched RR: the positive quanta of the interface
QuantumValues == 1 .. MaxQuantum
\* run N is given enough ticks for all the work that can be outstanding
RunTicks == MaxWork

VARIABLES
  policy,         \* Scheduler::policy: "RR" or "SJF"
  quantum,        \* Scheduler::quantum
  current_tick,   \* Scheduler::current_tick
  next_pid,       \* Scheduler::next_pid
  procs,          \* Scheduler::procs: pid -> PCB
  ready_q,        \* Scheduler::ready_q
  running_pid,    \* Scheduler::running_pid (optional)
  rr_slice_used,  \* Scheduler::rr_slice_used
  ran,            \* main's ran: what tick() returned, when the last command called it
  not_found,      \* the last command printed "pid not found"
  session,        \* main's loop: "prompt", inside "run", or left by "exit"
  run_left,       \* iterations left of the run N loop
  disp,           \* history: the most recent dispatch and what has happened to it
  frames,             \* MemoryManager::frames: fid -> Frame
  mem_policy,         \* MemoryManager::policy: "FIFO" or "LRU"
  tick_counter,       \* MemoryManager::tick_counter
  fifo_queue,         \* MemoryManager::fifo_queue
  total_page_faults,  \* MemoryManager::total_page_faults
  total_replacements, \* MemoryManager::total_replacements
  res,                \* what the last call returned, when it was access_page
  accesses,           \* history: number of access_page calls
  hits,               \* history: number of access_page calls that returned true
  inserted,           \* history: the pairs loaded, in order (see InsertedAfterAccess)
  seen,               \* history: number of distinct pairs passed to access_page
  npages,             \* PCB::npages of the first process
  trace,              \* PCB::trace of the first process
  trace_pos,          \* PCB::trace_pos of the first process
  page_faults,        \* PCB::page_faults of the first process
  runs                \* history: number of times tick() has reported that process

\* the Scheduler and the driver's session
svars == << policy, quantum, current_tick, next_pid, procs, ready_q,
            running_pid, rr_slice_used, ran, not_found, session, run_left, disp >>

\* the MemoryManager
mvars == << frames, mem_policy, tick_counter, fifo_queue, total_page_faults,
            total_replacements, res, accesses, hits, inserted, seen >>

\* the paging fields of the first process's PCB
pvars == << npages, trace, trace_pos, page_faults, runs >>

vars == << svars, mvars, pvars >>

(* ------------------------------- PCB ---------------------------------- *)
PCB(pid, burst, now) ==
  [ pid              |-> pid,
    estado           |-> "NEW",
    rafaga_restante  |-> burst,
    rafaga_total     |-> burst,
    llegada_tick     |-> now,
    inicio_tick      |-> Unset,
    fin_tick         |-> Unset,
    espera_acumulada |-> 0 ]

Pids == DOMAIN procs

\* pids the driver passes to kill: every pid create has returned, and the
\* least pid it has not
KillPids == 1 .. next_pid

\* an erase that takes nothing out
RemoveNothing(q, pid) == q

\* std::remove + erase: every occurrence of pid leaves, the rest keep their order
Remove(q, pid) == SelectSeq(q, LAMBDA x : x # pid)

InSeq(q, x) == \E i \in 1 .. Len(q) : q[i] = x


(* --------------------------- history: disp ---------------------------- *)
(* disp records the open slice, if there is one: the pid of the most recent *)
(* dispatch, the policy and quantum it was dispatched under, the remaining  *)
(* burst it was dispatched with (rem0), the number of consecutive tick()    *)
(* calls that have returned it since (n), and whether set_policy has been   *)
(* called since with that same policy and quantum (setpol).  The slice is   *)
(* open from the dispatch until the process is killed, has no work left,    *)
(* has been returned quantum times under RR, a tick() returns something     *)
(* else, or set_policy changes the policy or the quantum.  disp is written  *)
(* from what the calls are given and return, never read by the scheduler.   *)
SliceOpen(pol, q, n, rem) == rem > 0 /\ ~(pol = "RR" /\ n >= q)

DispAtDispatch(pid, rem0, rem) ==
  IF SliceOpen(policy, quantum, 1, rem)
    THEN Some([ pid |-> pid, pol |-> policy, q |-> quantum, rem0 |-> rem0,
                n |-> 1, setpol |-> FALSE ])
    ELSE None

DispAfterTick(ret, ps) ==
  IF ~HasValue(disp) THEN None
  ELSE LET d == disp[1] IN
       IF ret = Some(d.pid)
          /\ SliceOpen(d.pol, d.q, d.n + 1, ps[d.pid].rafaga_restante)
         THEN Some([d EXCEPT !.n = @ + 1])
         ELSE None

DispAfterKill(pid) ==
  IF HasValue(disp) /\ disp[1].pid = pid THEN None ELSE disp

DispAfterSetPolicy(p, q) ==
  IF HasValue(disp) /\ disp[1].pol = p /\ disp[1].q = q
    THEN Some([disp[1] EXCEPT !.setpol = TRUE])
    ELSE None

(* ----------------------------- Scheduler ------------------------------ *)
\* the driver is at its prompt
AtPrompt == session = "prompt"

\* Scheduler::create_process followed by main's make_ready (a no-op: the pid
\* is READY and queued already)
create_process(burst) ==
  LET pid == next_pid
      pcb == [PCB(pid, burst, current_tick) EXCEPT !.estado = "READY"]
  IN  /\ next_pid' = next_pid + 1
      /\ procs' = [p \in Pids \cup {pid} |-> IF p = pid THEN pcb ELSE procs[p]]
      /\ ready_q' = Append(ready_q, pid)
      /\ ran' = None
      /\ not_found' = FALSE
      /\ UNCHANGED << policy, quantum, current_tick, running_pid,
                      rr_slice_used, session, run_left, disp >>

\* a kill that stamps the tick after the current one
KilledPCBLate(pcb, now) == [pcb EXCEPT !.estado = "TERMINATED", !.fin_tick = now + 1]

\* the PCB kill_process leaves behind
KilledPCB(pcb, now) == [pcb EXCEPT !.estado = "TERMINATED", !.fin_tick = now]

\* a kill without the lookup: procs[pid] makes a default record for an unknown pid
kill_process_unchecked(pid) ==
  /\ ran' = None
  /\ not_found' = FALSE
  /\ UNCHANGED << policy, quantum, current_tick, next_pid, session, run_left >>
  /\ procs' = [p \in Pids \cup {pid} |->
                 KilledPCB(IF p \in Pids THEN procs[p] ELSE PCB(0, 0, 0), current_tick)]
  /\ ready_q' = Remove(ready_q, pid)
  /\ IF running_pid = Some(pid)
       THEN running_pid' = None /\ rr_slice_used' = 0
       ELSE UNCHANGED << running_pid, rr_slice_used >>
  /\ disp' = DispAfterKill(pid)

\* Scheduler::kill_process
kill_process(pid) ==
  /\ ran' = None
  /\ UNCHANGED << policy, quantum, current_tick, next_pid, session, run_left >>
  /\ IF pid \notin Pids
       THEN /\ not_found' = TRUE
            /\ UNCHANGED << procs, ready_q, running_pid, rr_slice_used, disp >>
       ELSE /\ not_found' = FALSE
            /\ procs' = [procs EXCEPT ![pid] = KilledPCB(@, current_tick)]
            /\ ready_q' = Remove(ready_q, pid)
            /\ IF running_pid = Some(pid)
                 THEN running_pid' = None /\ rr_slice_used' = 0
                 ELSE UNCHANGED << running_pid, rr_slice_used >>
            /\ disp' = DispAfterKill(pid)

\* a set_policy that puts the running process back in the ready queue
set_policy_requeue(p, q) ==
  /\ policy' = p
  /\ quantum' = q
  /\ running_pid' = None
  /\ rr_slice_used' = 0
  /\ ran' = None
  /\ not_found' = FALSE
  /\ disp' = DispAfterSetPolicy(p, q)
  /\ IF HasValue(running_pid)
       THEN /\ procs' = [procs EXCEPT ![running_pid[1]].estado = "READY"]
            /\ ready_q' = Append(ready_q, running_pid[1])
       ELSE UNCHANGED << procs, ready_q >>
  /\ UNCHANGED << current_tick, next_pid, session, run_left >>

\* Scheduler::set_policy
set_policy(p, q) ==
  /\ policy' = p
  /\ quantum' = q
  /\ running_pid' = None
  /\ rr_slice_used' = 0
  /\ ran' = None
  /\ not_found' = FALSE
  /\ disp' = DispAfterSetPolicy(p, q)
  /\ UNCHANGED << current_tick, next_pid, procs, ready_q, session, run_left >>

ReadyPids(ps) == { p \in DOMAIN ps : ps[p].estado = "READY" }

\* a scan that ends on the READY pid created first
FirstReady(ps) ==
  { p \in ReadyPids(ps) : \A r \in ReadyPids(ps) : p <= r }

\* the READY pids the SJF scan can end on: the unordered_map is walked in an
\* order the program does not control, and only a strictly smaller burst
\* replaces the best so far, so any READY pid of least remaining burst can win
ShortestReady(ps) ==
  { p \in ReadyPids(ps) :
      \A r \in ReadyPids(ps) : ps[p].rafaga_restante <= ps[r].rafaga_restante }

\* a schedule_next that pops the tail of the ready queue under RR
schedule_next_lifo ==
  IF policy = "RR"
    THEN IF ~HasValue(running_pid) /\ ready_q # << >>
           THEN { [next |-> Some(ready_q[Len(ready_q)]),
                   rq   |-> SubSeq(ready_q, 1, Len(ready_q) - 1)] }
           ELSE { [next |-> None, rq |-> ready_q] }
    ELSE IF ShortestReady(procs) # {}
           THEN { [next |-> Some(b), rq |-> Remove(ready_q, b)] :
                    b \in ShortestReady(procs) }
           ELSE { [next |-> None, rq |-> ready_q] }

\* Scheduler::schedule_next: the possible results, each the pid picked (or
\* nullopt) and the ready queue it leaves
schedule_next ==
  IF policy = "RR"
    THEN IF ~HasValue(running_pid) /\ ready_q # << >>
           THEN { [next |-> Some(Head(ready_q)), rq |-> Tail(ready_q)] }
           ELSE { [next |-> None, rq |-> ready_q] }
    ELSE IF ShortestReady(procs) # {}
           THEN { [next |-> Some(b), rq |-> Remove(ready_q, b)] :
                    b \in ShortestReady(procs) }
           ELSE { [next |-> None, rq |-> ready_q] }

\* tick, step 1: the dispatched process becomes RUNNING and gets its start tick
Dispatched(ps, pid, now) ==
  [ps EXCEPT ![pid].estado = "RUNNING",
             ![pid].inicio_tick = IF @ = Unset THEN now ELSE @]

\* tick, step 2: every READY process waits one more tick
AgeReady(ps) ==
  [p \in DOMAIN ps |->
     IF ps[p].estado = "READY"
       THEN [ps[p] EXCEPT !.espera_acumulada = @ + 1]
       ELSE ps[p]]

\* a tick that charges two units of CPU
ChargedTwice(pcb) == [pcb EXCEPT !.rafaga_restante = @ - 2]

\* tick, step 3: one unit of CPU is charged
Charged(pcb) == [pcb EXCEPT !.rafaga_restante = @ - 1]

\* tick, step 3: the termination test
Exhausted(pcb) == pcb.rafaga_restante <= 0

\* an exit stamped with the tick it happens in, not the one it ends at
ExitedPCBEarly(pcb, now) == [pcb EXCEPT !.estado = "TERMINATED", !.fin_tick = now]

\* tick, step 3: the PCB of a process that has used up its burst
ExitedPCB(pcb, now) == [pcb EXCEPT !.estado = "TERMINATED", !.fin_tick = now + 1]

\* a quantum test that lets the slice run one tick over
QuantumExpiredLate(pol, used, q) == pol = "RR" /\ used > q

\* a quantum test that does not look at the policy
QuantumExpiredAnyPolicy(pol, used, q) == used >= q

\* tick, step 3: the quantum test, made on the slice counter already incremented
QuantumExpired(pol, used, q) == pol = "RR" /\ used >= q

\* a preemption that does not put the pid back
RequeuedNowhere(q, pid) == q

\* a preemption that queues the pid twice
RequeuedTwice(q, pid) == Append(Append(q, pid), pid)

\* tick, step 3: the ready queue after a preemption
Requeued(q, pid) == Append(q, pid)

\* Scheduler::tick, and the ran the driver receives from it
TickResult(s) ==
  LET dispatch == HasValue(s.next)
      run1     == IF dispatch THEN s.next ELSE running_pid
      ps1      == IF dispatch
                    THEN Dispatched(procs, s.next[1], current_tick)
                    ELSE procs
      slice1   == IF dispatch THEN 0 ELSE rr_slice_used
      ps2      == AgeReady(ps1)
  IN  IF ~HasValue(run1)
        THEN [ran |-> None, procs |-> ps2, ready_q |-> s.rq, running_pid |-> None,
              rr_slice_used |-> slice1, disp |-> DispAfterTick(None, ps2)]
        ELSE LET pid == run1[1]
                 ps3 == [ps2 EXCEPT ![pid] = Charged(@)]
                 d   == IF dispatch
                          THEN DispAtDispatch(pid, ps2[pid].rafaga_restante,
                                              ps3[pid].rafaga_restante)
                          ELSE DispAfterTick(run1, ps3)
             IN  IF Exhausted(ps3[pid])
                   THEN [ran |-> run1,
                         procs |-> [ps3 EXCEPT ![pid] = ExitedPCB(@, current_tick)],
                         ready_q |-> s.rq, running_pid |-> None,
                         rr_slice_used |-> 0, disp |-> d]
                   ELSE IF QuantumExpired(policy, slice1 + 1, quantum)
                          THEN [ran |-> run1,
                                procs |-> [ps3 EXCEPT ![pid].estado = "READY"],
                                ready_q |-> Requeued(s.rq, pid), running_pid |-> None,
                                rr_slice_used |-> 0, disp |-> d]
                          ELSE [ran |-> run1, procs |-> ps3, ready_q |-> s.rq,
                                running_pid |-> run1,
                                rr_slice_used |->
                                  IF policy = "RR" THEN slice1 + 1 ELSE slice1,
                                disp |-> d]

tick ==
  \E s \in (IF HasValue(running_pid)
              THEN { [next |-> None, rq |-> ready_q] }
              ELSE schedule_next) :
    LET r == TickResult(s)
    IN  /\ current_tick' = current_tick + 1
        /\ ran' = r.ran
        /\ not_found' = FALSE
        /\ procs' = r.procs
        /\ ready_q' = r.ready_q
        /\ running_pid' = r.running_pid
        /\ rr_slice_used' = r.rr_slice_used
        /\ disp' = r.disp
        /\ UNCHANGED << policy, quantum, next_pid >>

(* --------------------------- MemoryManager ---------------------------- *)
\* Frame::Frame(id): a free frame
Frame(fid) ==
  [ fid              |-> fid,
    pid              |-> NoFrame,
    page             |-> NoFrame,
    loaded_at_tick   |-> NoFrame,
    last_access_tick |-> NoFrame ]

\* MemoryManager::MemoryManager(nframes, p): the manager just constructed
MemoryManager(nframes, p) ==
  /\ frames = [f \in 0 .. nframes - 1 |-> Frame(f)]
  /\ mem_policy = p
  /\ tick_counter = 0
  /\ fifo_queue = << >>
  /\ total_page_faults = 0
  /\ total_replacements = 0
  /\ res = None
  /\ accesses = 0
  /\ hits = 0
  /\ inserted = IF p = "FIFO" THEN Some(<< >>) ELSE None
  /\ seen = 0

Fids == DOMAIN frames

\* the least of a non-empty set of integers: where a scan in fid order stops
Lowest(S) == CHOOSE x \in S : \A y \in S : x <= y

\* a residency test that never finds the pair
NoMatchingFids(pid, page) == { }

\* the frames that hold (pid, page)
MatchingFids(pid, page) ==
  { f \in Fids : frames[f].pid = pid /\ frames[f].page = page }

FreeFids == { f \in Fids : frames[f].pid = NoFrame }

OccupiedFids == Fids \ FreeFids

\* the occupied frame ids in frame order: the loop of set_policy
OccupiedInOrder ==
  LET n == Cardinality(Fids)
      build[i \in 0 .. n] ==
        IF i = 0 THEN << >>
        ELSE IF frames[i - 1].pid # NoFrame
               THEN Append(build[i - 1], i - 1)
               ELSE build[i - 1]
  IN  build[n]

\* a set_policy that leaves the queue as it is
StaleQueue == fifo_queue

\* the queue set_policy leaves
RebuiltQueue == OccupiedInOrder

(* history: inserted is the sequence of pairs loaded so far, kept for as   *)
(* long as the manager has been FIFO since its pool was empty and          *)
(* set_policy has not been called since the first load; None otherwise.    *)
(* Written from the arguments and results of the calls, never read by the  *)
(* manager.                                                                *)
InsertedAfterAccess(hit, pid, page) ==
  IF HasValue(inserted) /\ ~hit
    THEN Some(Append(inserted[1], << pid, page >>))
    ELSE inserted

InsertedAfterSetPolicy(p) ==
  IF p = "FIFO" /\ OccupiedFids = {} THEN Some(<< >>) ELSE None

\* a set_policy that empties the pool when it switches
mem_set_policy_flush(p) ==
  /\ mem_policy' = p
  /\ fifo_queue' = << >>
  /\ frames' = [f \in Fids |-> Frame(f)]
  /\ res' = None
  /\ inserted' = InsertedAfterSetPolicy(p)
  /\ UNCHANGED << tick_counter, total_page_faults, total_replacements,
                  accesses, hits >>

\* MemoryManager::set_policy
mem_set_policy(p) ==
  /\ mem_policy' = p
  /\ fifo_queue' = RebuiltQueue
  /\ res' = None
  /\ inserted' = InsertedAfterSetPolicy(p)
  /\ UNCHANGED << frames, tick_counter, total_page_faults, total_replacements,
                  accesses, hits >>

\* MemoryManager::advance_tick
advance_tick ==
  /\ tick_counter' = tick_counter + 1
  /\ res' = None
  /\ UNCHANGED << frames, mem_policy, fifo_queue, total_page_faults,
                  total_replacements, accesses, hits, inserted >>

\* a scan that keeps the last frame of least last_access_tick
LeastRecentlyUsedLast ==
  CHOOSE f \in Fids :
    /\ \A g \in Fids : frames[f].last_access_tick <= frames[g].last_access_tick
    /\ \A g \in Fids :
         frames[g].last_access_tick = frames[f].last_access_tick => g <= f

\* the LRU scan of choose_victim: only a strictly smaller last_access_tick
\* replaces the best so far, so the first frame of the least one is kept
LeastRecentlyUsed ==
  Lowest({ f \in Fids :
             \A g \in Fids : frames[f].last_access_tick <= frames[g].last_access_tick })

\* the empty-queue scan of choose_victim, on loaded_at_tick in the same way
OldestLoaded ==
  Lowest({ f \in Fids :
             \A g \in Fids : frames[f].loaded_at_tick <= frames[g].loaded_at_tick })

\* a choose_victim that takes the tail of the queue under FIFO
choose_victim_newest ==
  IF mem_policy = "FIFO"
    THEN IF fifo_queue = << >>
           THEN [fid |-> OldestLoaded, q |-> fifo_queue, fallback |-> TRUE]
           ELSE [fid |-> fifo_queue[Len(fifo_queue)],
                 q |-> SubSeq(fifo_queue, 1, Len(fifo_queue) - 1), fallback |-> FALSE]
    ELSE [fid |-> LeastRecentlyUsed, q |-> fifo_queue, fallback |-> FALSE]

\* a choose_victim that takes the least recently used frame under FIFO too
choose_victim_lru ==
  [fid |-> LeastRecentlyUsed, q |-> fifo_queue, fallback |-> FALSE]

\* MemoryManager::choose_victim: the victim, the queue it leaves, and
\* whether the empty-queue scan was used
choose_victim ==
  IF mem_policy = "FIFO"
    THEN IF fifo_queue = << >>
           THEN [fid |-> OldestLoaded, q |-> fifo_queue, fallback |-> TRUE]
           ELSE [fid |-> Head(fifo_queue), q |-> Tail(fifo_queue), fallback |-> FALSE]
    ELSE [fid |-> LeastRecentlyUsed, q |-> fifo_queue, fallback |-> FALSE]

\* find + erase: the first occurrence of x leaves
EraseFirst(q, x) ==
  IF InSeq(q, x)
    THEN LET i == Lowest({ k \in 1 .. Len(q) : q[k] = x })
         IN  SubSeq(q, 1, i - 1) \o SubSeq(q, i + 1, Len(q))
    ELSE q

\* the frame after (pid, page) is loaded into it at tick now
LoadedFrame(fr, pid, page, now) ==
  [fr EXCEPT !.pid = pid, !.page = page,
             !.loaded_at_tick = now, !.last_access_tick = now]

\* a hit that stamps nothing
Untouched(fr, now) == fr

\* is_resident_and_touch: the frame after a hit at tick now
Touched(fr, now) == [fr EXCEPT !.last_access_tick = now]

\* a load_page that counts every load as a replacement
load_page_counting(pid, page, now) ==
  IF FreeFids # {}
    THEN LET f == Lowest(FreeFids)
         IN  [ frames     |-> [frames EXCEPT ![f] = LoadedFrame(@, pid, page, now)],
               fifo_queue |-> IF mem_policy = "FIFO"
                                THEN Append(fifo_queue, f) ELSE fifo_queue,
               replacements |-> total_replacements + 1,
               fid        |-> f,
               evicted    |-> None,
               fallback   |-> FALSE ]
    ELSE LET v == choose_victim
         IN  [ frames     |-> [frames EXCEPT ![v.fid] =
                                 LoadedFrame(@, pid, page, now)],
               fifo_queue |-> IF mem_policy = "FIFO"
                                THEN Append(EraseFirst(v.q, v.fid), v.fid) ELSE v.q,
               replacements |-> total_replacements + 1,
               fid        |-> v.fid,
               evicted    |-> Some(<< frames[v.fid].pid, frames[v.fid].page >>),
               fallback   |-> v.fallback ]

\* MemoryManager::load_page when tick_counter is now: what it leaves and
\* returns
load_page(pid, page, now) ==
  IF FreeFids # {}
    THEN LET f == Lowest(FreeFids)
         IN  [ frames     |-> [frames EXCEPT ![f] = LoadedFrame(@, pid, page, now)],
               fifo_queue |-> IF mem_policy = "FIFO"
                                THEN Append(fifo_queue, f) ELSE fifo_queue,
               replacements |-> total_replacements,
               fid        |-> f,
               evicted    |-> None,
               fallback   |-> FALSE ]
    ELSE LET v == choose_victim
         IN  [ frames     |-> [frames EXCEPT ![v.fid] =
                                 LoadedFrame(@, pid, page, now)],
               fifo_queue |-> IF mem_policy = "FIFO"
                                THEN Append(EraseFirst(v.q, v.fid), v.fid) ELSE v.q,
               replacements |-> total_replacements + 1,
               fid        |-> v.fid,
               evicted    |-> Some(<< frames[v.fid].pid, frames[v.fid].page >>),
               fallback   |-> v.fallback ]

\* MemoryManager::access_page with is_resident_and_touch when tick_counter
\* is now: what the call leaves, and the pair (had_page, frame id) it returns
AccessResult(pid, page, now) ==
  IF MatchingFids(pid, page) # {}
    THEN LET f == Lowest(MatchingFids(pid, page))
         IN  [ frames     |-> [frames EXCEPT ![f] = Touched(@, now)],
               fifo_queue |-> fifo_queue,
               faults     |-> total_page_faults,
               replacements |-> total_replacements,
               ret        |-> [ pid |-> pid, page |-> page, hit |-> TRUE,
                                fid |-> NoFrame, at |-> f, evicted |-> None,
                                fallback |-> FALSE ] ]
    ELSE LET l == load_page(pid, page, now)
         IN  [ frames     |-> l.frames,
               fifo_queue |-> l.fifo_queue,
               faults     |-> total_page_faults + 1,
               replacements |-> l.replacements,
               ret        |-> [ pid |-> pid, page |-> page, hit |-> FALSE,
                                fid |-> l.fid, at |-> l.fid, evicted |-> l.evicted,
                                fallback |-> l.fallback ] ]

\* what a call of access_page writes when tick_counter is now
access_at(pid, page, now) ==
  LET r == AccessResult(pid, page, now)
  IN  /\ frames' = r.frames
      /\ fifo_queue' = r.fifo_queue
      /\ total_page_faults' = r.faults
      /\ total_replacements' = r.replacements
      /\ res' = Some(r.ret)
      /\ accesses' = accesses + 1
      /\ hits' = IF r.ret.hit THEN hits + 1 ELSE hits
      /\ inserted' = InsertedAfterAccess(r.ret.hit, pid, page)

\* MemoryManager::access_page
access_page(pid, page) ==
  /\ access_at(pid, page, tick_counter)
  /\ UNCHANGED << mem_policy, tick_counter >>

(* ------------------- the MemoryManager's interface -------------------- *)
\* the pids and pages passed to access_page
MemPids == 1 .. MaxProcs

Pages == 0 .. MaxPage

NumPairs == Cardinality(MemPids) * Cardinality(Pages)

(* The manager only compares pids and pages for equality, so the pairs are *)
(* passed in a fixed order of first use: (1,0), (1,1), ..., (2,0), ...     *)
\* the k-th pair in that order
PairAt(k) == << 1 + ((k - 1) \div Cardinality(Pages)), (k - 1) % Cardinality(Pages) >>

\* the pairs an access can be of: those used before and the next new one
NextPairs == 1 .. (IF seen < NumPairs THEN seen + 1 ELSE NumPairs)

(* advance_tick is called at most once between two accesses: more calls    *)
(* only shift the stamps of the accesses that follow.                      *)
\* mem.advance_tick()
AdvanceTick ==
  /\ tick_counter <= accesses
  /\ accesses < MaxAccess
  /\ advance_tick
  /\ UNCHANGED << svars, seen, pvars >>

\* mem.access_page(pid, page)
Access ==
  /\ accesses < MaxAccess
  /\ \E k \in NextPairs :
       /\ access_page(PairAt(k)[1], PairAt(k)[2])
       /\ seen' = IF k > seen THEN k ELSE seen
  /\ UNCHANGED << svars, pvars >>

\* set_pagemode FIFO | LRU: mem.set_policy
SetPagemode ==
  /\ \E p \in {"FIFO", "LRU"} : mem_set_policy(p)
  /\ UNCHANGED << svars, seen, pvars >>

(* ------------------------- the driver: main() ------------------------- *)
(* The scheduler's commands are modelled with the MemoryManager held       *)
(* still: main hands the pid tick() returns to the memory manager, and     *)
(* nothing the memory manager does is read by the scheduler.  The memory   *)
(* manager is driven through its own interface in SpecMem, and by the     *)
(* tick command as a whole in SpecSession.                                 *)
\* the bursts the driver has asked for so far (pids are 1 .. next_pid - 1)
TotalBurst ==
  LET sum[n \in 0 .. next_pid - 1] ==
        IF n = 0 THEN 0 ELSE sum[n - 1] + procs[n].rafaga_total
  IN  sum[next_pid - 1]

\* new <burst>
New ==
  /\ AtPrompt
  /\ next_pid <= MaxProcs
  /\ \E burst \in BurstValues :
       /\ TotalBurst + burst <= MaxWork
       /\ create_process(burst)
  /\ UNCHANGED << mvars, pvars >>

\* kill PID
Kill ==
  /\ AtPrompt
  /\ \E pid \in KillPids : kill_process(pid)
  /\ UNCHANGED << mvars, pvars >>

\* set_sched RR <quantum>
SetSchedRR ==
  /\ AtPrompt
  /\ \E q \in QuantumValues : set_policy("RR", q)
  /\ UNCHANGED << mvars, pvars >>

\* set_sched SJF
SetSchedSJF ==
  /\ AtPrompt
  /\ set_policy("SJF", SJFQuantum)
  /\ UNCHANGED << mvars, pvars >>

\* tick
Tick ==
  /\ AtPrompt
  /\ current_tick < MaxTick
  /\ tick
  /\ UNCHANGED << session, run_left >>
  /\ UNCHANGED << mvars, pvars >>

\* run N is read (N = RunTicks)
BeginRun ==
  /\ AtPrompt
  /\ session' = "run"
  /\ run_left' = RunTicks
  /\ ran' = None
  /\ not_found' = FALSE
  /\ UNCHANGED << policy, quantum, current_tick, next_pid, procs, ready_q,
                  running_pid, rr_slice_used, disp >>
  /\ UNCHANGED << mvars, pvars >>

\* run N, one iteration of its loop
RunLoop ==
  /\ session = "run"
  /\ run_left > 0
  /\ tick
  /\ run_left' = run_left - 1
  /\ UNCHANGED session
  /\ UNCHANGED << mvars, pvars >>

\* the loop of run N is over; the driver reads exit (or the end of its input)
Exit ==
  /\ session = "run"
  /\ run_left = 0
  /\ session' = "exit"
  /\ UNCHANGED << policy, quantum, current_tick, next_pid, procs, ready_q,
                  running_pid, rr_slice_used, ran, not_found, run_left, disp >>
  /\ UNCHANGED << mvars, pvars >>

\* Scheduler sched(CPUPolicy::RR, 2), and the driver at its first prompt
SchedulerInit ==
  /\ policy = "RR"
  /\ quantum = DefaultQuantum
  /\ current_tick = 0
  /\ next_pid = 1
  /\ procs = [p \in {} |-> PCB(p, 0, 0)]
  /\ ready_q = << >>
  /\ running_pid = None
  /\ rr_slice_used = 0
  /\ ran = None
  /\ not_found = FALSE
  /\ session = "prompt"
  /\ run_left = 0
  /\ disp = None

(* -------------- the driver: the page reference of a tick -------------- *)
\* PCB::PCB and create_process: the paging fields of a new PCB
PagingFields(pages, tr) ==
  /\ npages = pages
  /\ trace = tr
  /\ trace_pos = 0
  /\ page_faults = 0
  /\ runs = 0

\* a % n of C++ for n > 0: the quotient is truncated toward zero, so the
\* remainder has the sign of a
Remainder(a, n) == IF a >= 0 THEN a % n ELSE 0 - ((0 - a) % n)

\* if (p.trace_pos >= (int)p.trace.size()) p.trace_pos = 0
Wrapped(pos, tr) == IF pos >= Len(tr) THEN 0 ELSE pos

\* if (page < 0 || page >= p.npages) page = page % p.npages
TracePage(v, n) == IF v < 0 \/ v >= n THEN Remainder(v, n) ELSE v

\* std::uniform_int_distribution<int> dist(0, max(0, p.npages - 1))
RandomPages(n) == 0 .. (IF n - 1 > 0 THEN n - 1 ELSE 0)

\* the pages main can compute for the process
NextPages ==
  IF trace # << >>
    THEN { TracePage(trace[Wrapped(trace_pos, trace) + 1], npages) }
    ELSE RandomPages(npages)

\* what main writes in the PCB: the trace cursor and, if access_page
\* returned false, the fault count
page_ref(hit) ==
  /\ trace_pos' = IF trace # << >> THEN Wrapped(trace_pos, trace) + 1 ELSE trace_pos
  /\ page_faults' = IF hit THEN page_faults ELSE page_faults + 1
  /\ runs' = runs + 1
  /\ UNCHANGED << npages, trace >>

(* tick() has reported the first process: main looks up its PCB, computes  *)
(* the page and calls access_page.  The part of the tick and run commands  *)
(* that follows sched.tick().                                              *)
PageRef ==
  /\ runs < MaxRuns
  /\ \E pg \in NextPages :
       /\ access_page(FirstPid, pg)
       /\ page_ref(AccessResult(FirstPid, pg, tick_counter).ret.hit)
  /\ UNCHANGED << svars, seen >>

\* the page counts and the trace elements given to "new"
PageCounts == 1 .. MaxPage + 1

TraceValues == (0 - MaxPage - 1) .. (MaxPage + 1)

\* parse_trace: the traces of at most MaxTraceLen elements
Traces == UNION { [1 .. n -> TraceValues] : n \in 0 .. MaxTraceLen }

\* the state main() starts its loop in
Init ==
  /\ SchedulerInit
  /\ MemoryManager(DefaultFrames, "FIFO")
  /\ PagingFields(DefaultPages, << >>)

Next == New \/ Kill \/ SetSchedRR \/ SetSchedSJF \/ Tick

Spec == Init /\ [][Next]_vars

NextRun == Next \/ BeginRun \/ RunLoop \/ Exit

\* set_pagemode FIFO | LRU <nframes>: mem = MemoryManager(nframes, policy)
InitMem ==
  /\ SchedulerInit
  /\ \E nframes \in 1 .. MaxFrames : \E p \in {"FIFO", "LRU"} :
       MemoryManager(nframes, p)
  /\ PagingFields(DefaultPages, << >>)

NextMem == AdvanceTick \/ Access \/ SetPagemode

\* a MemoryManager of at least one frame under any sequence of its calls
SpecMem == InitMem /\ [][NextMem]_vars

\* new <burst> <np> <trace> as the first command: the first process's PCB
InitPage ==
  /\ SchedulerInit
  /\ MemoryManager(DefaultFrames, "FIFO")
  /\ \E pages \in PageCounts : \E tr \in Traces : PagingFields(pages, tr)

NextPage == PageRef

\* the page references of one process over the ticks that report it
SpecPage == InitPage /\ [][NextPage]_vars

(* ------------------ the driver: a session with paging ------------------ *)
\* new <burst> <np> for the first process: no trace, so that its page
\* references are drawn at random
NewPaged ==
  /\ AtPrompt
  /\ next_pid = FirstPid
  /\ \E burst \in BurstValues : create_process(burst)
  /\ \E pages \in PageCounts :
       /\ npages' = pages
       /\ trace' = << >>
       /\ UNCHANGED << trace_pos, page_faults, runs >>
  /\ UNCHANGED mvars

(* the tick command as a whole: mem.advance_tick(), sched.tick(), and for   *)
(* the pid it reports the page reference and mem.access_page                *)
TickPaged ==
  /\ AtPrompt
  /\ current_tick < MaxWork
  /\ tick
  /\ UNCHANGED << session, run_left >>
  /\ tick_counter' = tick_counter + 1
  /\ UNCHANGED << mem_policy, seen >>
  /\ IF HasValue(ran')
       THEN \E pg \in NextPages :
              /\ access_at(ran'[1], pg, tick_counter + 1)
              /\ page_ref(AccessResult(ran'[1], pg, tick_counter + 1).ret.hit)
       ELSE /\ res' = None
            /\ UNCHANGED << frames, fifo_queue, total_page_faults,
                            total_replacements, accesses, hits, inserted, pvars >>

NextSession == NewPaged \/ Kill \/ TickPaged \/ SetPagemode

\* a session of one process: new, kill, tick and set_pagemode from a pool
\* of at least one frame
SpecSession == InitMem /\ [][NextSession]_vars

\* the session with the run command; the loop of run N runs to its end
SpecRun == Init /\ [][NextRun]_vars /\ WF_vars(RunLoop) /\ WF_vars(Exit)


(* ------------------------- steps and helpers -------------------------- *)
\* a step in which tick() was called: nothing else moves current_tick
IsTick == current_tick' = current_tick + 1

\* a step in which set_policy was called
IsSetPolicy ==
  \E p \in {"RR", "SJF"} : \E q \in QuantumValues \cup {SJFQuantum} : set_policy(p, q)

\* a tick() step that found the CPU free and dispatched pid
DispatchedNow(pid) == IsTick /\ ~HasValue(running_pid) /\ ran' = Some(pid)

\* x comes before y in q
Before(q, x, y) ==
  \E i \in 1 .. Len(q) : \E j \in 1 .. Len(q) : i < j /\ q[i] = x /\ q[j] = y

\* pid is RUNNING but is not in the running slot
Orphan(pid) ==
  pid \in Pids /\ procs[pid].estado = "RUNNING" /\ running_pid # Some(pid)

(* ------------------------------- C1 ----------------------------------- *)
(* C1: on every step, each process's remaining burst goes down by exactly  *)
(* 1 if the step is a tick() that returns its pid, and stays as it is on   *)
(* every other step (other ticks, create, kill, set_policy).               *)
C1_BurstChargedToRanOnly ==
  [][ \A p \in Pids :
        procs'[p].rafaga_restante =
          IF IsTick /\ ran' = Some(p)
            THEN procs[p].rafaga_restante - 1
            ELSE procs[p].rafaga_restante ]_vars

\* a tick has returned one process, charged it one unit, and left a waiting one alone
C1_Witness ==
  \E p \in Pids : \E r \in Pids :
    /\ ran = Some(p)
    /\ procs[p].rafaga_restante = procs[p].rafaga_total - 1
    /\ r # p
    /\ procs[r].espera_acumulada >= 1
    /\ procs[r].rafaga_restante = procs[r].rafaga_total

(* ------------------------------- C2 ----------------------------------- *)
(* C2: a process's finish tick is written once: it changes only from unset, *)
(* and only in a tick() that takes the remaining burst from > 0 to <= 0    *)
(* (to current tick + 1) or in a kill of that pid (to the current tick).   *)
C2_FinishTickWrittenOnce ==
  [][ \A p \in Pids :
        procs'[p].fin_tick # procs[p].fin_tick =>
          /\ procs[p].fin_tick = Unset
          /\ \/ /\ IsTick
                /\ procs[p].rafaga_restante > 0
                /\ procs'[p].rafaga_restante <= 0
                /\ procs'[p].fin_tick = current_tick + 1
             \/ /\ kill_process(p)
                /\ procs'[p].fin_tick = current_tick ]_vars

(* ------------------------------- C3 ----------------------------------- *)
\* pid has been preempted: READY, last in the ready queue behind every pid
\* that was queued, and the CPU is free
PreemptedToTail(pid) ==
  /\ procs'[pid].estado = "READY"
  /\ ready_q' = Append(Remove(ready_q, pid), pid)
  /\ running_pid' = None

\* the effect of the n-th consecutive tick of pid's slice under quantum q
SliceTick(pid, n, q) ==
  /\ ran' = Some(pid)
  /\ IF n = q
       THEN PreemptedToTail(pid)
       ELSE running_pid' = Some(pid) /\ procs'[pid].estado = "RUNNING"

\* what every tick() does to a Round-Robin slice of a process dispatched
\* with more than a quantum left; interrupted tells whether a slice that
\* set_policy was called in is held to it too
RRSlice(interrupted) ==
  IsTick =>
    /\ ( /\ HasValue(disp)
         /\ disp[1].pol = "RR"
         /\ disp[1].q >= 1
         /\ disp[1].rem0 > disp[1].q
         /\ (disp[1].setpol => interrupted) )
       => SliceTick(disp[1].pid, disp[1].n + 1, disp[1].q)
    /\ \A p \in Pids :
         ( /\ DispatchedNow(p)
           /\ policy = "RR"
           /\ quantum >= 1
           /\ procs[p].rafaga_restante > quantum )
         => SliceTick(p, 1, quantum)

(* C3 as stated: under RR with quantum Q >= 1 a process dispatched with    *)
(* more than Q left and not killed since is returned by Q consecutive      *)
(* tick() calls, and the Q-th leaves it READY at the tail of the ready     *)
(* queue with the CPU free.                                                *)
C3_QuantumPreemptionOriginal == [][RRSlice(TRUE)]_vars

(* C3 amended: the same, for a process that has been neither killed nor    *)
(* dropped from the CPU by a set_policy call since its dispatch.           *)
C3_QuantumPreemption == [][RRSlice(FALSE)]_vars

\* the second tick of a quantum of 2 has just preempted a process to the
\* tail, behind a pid that was queued before
C3_Witness ==
  \E p \in Pids : \E r \in Pids :
    /\ policy = "RR"
    /\ quantum >= 2
    /\ ran = Some(p)
    /\ procs[p].estado = "READY"
    /\ procs[p].rafaga_total - procs[p].rafaga_restante = quantum
    /\ procs[p].inicio_tick = current_tick - quantum
    /\ r # p
    /\ ready_q = << r, p >>
    /\ running_pid = None

(* ------------------------------- C4 ----------------------------------- *)
\* every tick() returns the process of the open SJF slice; interrupted as
\* in RRSlice
SJFSlice(interrupted) ==
  ( /\ IsTick
    /\ HasValue(disp)
    /\ disp[1].pol = "SJF"
    /\ (disp[1].setpol => interrupted) )
  => /\ ran' = Some(disp[1].pid)
     /\ procs'[disp[1].pid].estado \in {"RUNNING", "TERMINATED"}

(* C4 as stated: under SJF a dispatched process is returned by every       *)
(* following tick() until it terminates or is killed, whatever is created  *)
(* in between.                                                             *)
C4_SJFNonPreemptiveOriginal == [][SJFSlice(TRUE)]_vars

(* C4 amended: under SJF a dispatched process is returned by every         *)
(* following tick() until it terminates, is killed, or set_policy is       *)
(* called; creating shorter processes never takes the CPU from it.         *)
C4_SJFNonPreemptive == [][SJFSlice(FALSE)]_vars

\* a process created after the dispatch, and shorter than the running one
\* was then, has waited through a tick that returned the running one
C4_Witness ==
  \E p \in Pids : \E r \in Pids :
    /\ policy = "SJF"
    /\ disp = Some([ pid |-> p, pol |-> "SJF", q |-> SJFQuantum,
                     rem0 |-> procs[p].rafaga_total, n |-> 2, setpol |-> FALSE ])
    /\ ran = Some(p)
    /\ running_pid = Some(p)
    /\ procs[r].estado = "READY"
    /\ procs[r].llegada_tick > procs[p].inicio_tick
    /\ procs[r].espera_acumulada >= 1
    /\ procs[r].rafaga_restante <= procs[p].rafaga_restante

(* ------------------------------- C5 ----------------------------------- *)
(* C5: under SJF a tick() that finds the CPU free and a READY process      *)
(* dispatches one, and the one it dispatches was READY with a remaining    *)
(* burst no larger than that of any READY process, whatever the creation   *)
(* order.                                                                  *)
C5_SJFPicksShortest ==
  [][ (IsTick /\ policy = "SJF" /\ ~HasValue(running_pid)) =>
        /\ ReadyPids(procs) # {} => HasValue(ran')
        /\ \A p \in Pids :
             ran' = Some(p) =>
               /\ procs[p].estado = "READY"
               /\ \A r \in ReadyPids(procs) :
                    procs[p].rafaga_restante <= procs[r].rafaga_restante ]_vars

\* the process created second, with the shorter burst, was dispatched first
C5_Witness ==
  \E p \in Pids : \E r \in Pids :
    /\ policy = "SJF"
    /\ ran = Some(p)
    /\ r < p
    /\ procs[r].llegada_tick <= procs[p].llegada_tick
    /\ procs[r].estado = "READY"
    /\ procs[r].inicio_tick = Unset
    /\ procs[r].rafaga_restante > procs[p].rafaga_total
    /\ procs[p].inicio_tick # Unset

(* ------------------------------- C6 ----------------------------------- *)
(* C6: the ready queue is first-in first-out.  On every step the pids that *)
(* stay queued keep their order, a pid that enters (by create or by        *)
(* preemption) enters at the tail, and under RR the pid a tick()           *)
(* dispatches is the head of the queue: so of two queued pids the one      *)
(* that entered first is dispatched first, unless it is killed.            *)
C6_RoundRobinFIFO ==
  [][ /\ \A a \in Pids : \A b \in Pids :
           ( /\ Before(ready_q, a, b)
             /\ InSeq(ready_q', a) /\ InSeq(ready_q', b)
             /\ ~DispatchedNow(a) /\ ~DispatchedNow(b) )
           => Before(ready_q', a, b)
      /\ \A a \in DOMAIN procs' :
           ( /\ InSeq(ready_q', a)
             /\ (a \in Pids /\ InSeq(ready_q, a)) => DispatchedNow(a) )
           => /\ ready_q'[Len(ready_q')] = a
              /\ \A i \in 1 .. (Len(ready_q') - 1) : ready_q'[i] # a
      /\ \A a \in Pids :
           (DispatchedNow(a) /\ policy = "RR")
           => /\ ready_q # << >>
              /\ a = Head(ready_q) ]_vars

\* under RR the first process was preempted behind the second, the second
\* was dispatched next, and was preempted behind the first in its turn
C6_Witness ==
  \E a \in Pids : \E b \in Pids :
    /\ policy = "RR"
    /\ a < b
    /\ procs[a].inicio_tick # Unset
    /\ procs[b].inicio_tick > procs[a].inicio_tick
    /\ ran = Some(b)
    /\ ready_q = << a, b >>

(* ------------------------------- C7 ----------------------------------- *)
(* C7: kill of a known pid leaves it TERMINATED with finish tick = current *)
(* tick, out of the ready queue and out of the running slot, and leaves    *)
(* alone every other record, the other queued pids and their order, the    *)
(* running slot if another pid held it, and the tick counter.              *)
C7_KillKnownPid ==
  [][ \A pid \in Pids :
        kill_process(pid) =>
          /\ procs'[pid].estado = "TERMINATED"
          /\ procs'[pid].fin_tick = current_tick
          /\ ~InSeq(ready_q', pid)
          /\ running_pid' # Some(pid)
          /\ DOMAIN procs' = Pids
          /\ \A o \in Pids \ {pid} :
               /\ procs'[o] = procs[o]
               /\ InSeq(ready_q', o) <=> InSeq(ready_q, o)
               /\ \A o2 \in Pids \ {pid} :
                    Before(ready_q', o, o2) <=> Before(ready_q, o, o2)
          /\ Len(ready_q') = Cardinality({ i \in 1 .. Len(ready_q) : ready_q[i] # pid })
          /\ running_pid # Some(pid) => running_pid' = running_pid
          /\ current_tick' = current_tick ]_vars

\* a waiting process has just been killed in the middle of another one's slice
C7_Witness ==
  \E pid \in Pids : \E o \in Pids :
    /\ procs[pid].estado = "TERMINATED"
    /\ procs[pid].rafaga_restante = procs[pid].rafaga_total
    /\ procs[pid].espera_acumulada >= 1
    /\ procs[pid].fin_tick = current_tick
    /\ ran = None
    /\ o # pid
    /\ running_pid = Some(o)
    /\ rr_slice_used >= 1

(* ------------------------------- C8 ----------------------------------- *)
(* C8: kill of a pid create never returned changes no process record, not *)
(* the ready queue, the running slot, the slice counter or the tick        *)
(* counter, and makes no record for that pid.                              *)
C8_KillUnknownPid ==
  [][ \A pid \in KillPids :
        (pid \notin Pids /\ kill_process(pid)) =>
          /\ procs' = procs
          /\ pid \notin DOMAIN procs'
          /\ ready_q' = ready_q
          /\ running_pid' = running_pid
          /\ rr_slice_used' = rr_slice_used
          /\ current_tick' = current_tick
          /\ next_pid' = next_pid ]_vars

\* "pid not found" has just been reported with a process running and another queued
C8_Witness ==
  /\ not_found
  /\ HasValue(running_pid)
  /\ ready_q # << >>
  /\ rr_slice_used >= 1

(* ------------------------------- C9 ----------------------------------- *)
(* C9: set_policy called while P holds the CPU frees the CPU and leaves P  *)
(* RUNNING and out of the ready queue; from then on every step either      *)
(* leaves P's record as it is, P out of the queue and of the running slot, *)
(* and returns another pid or none from tick(), or is kill(P).             *)
C9_SetPolicyDropsRunning ==
  [][ \A P \in Pids :
        /\ (running_pid = Some(P) /\ IsSetPolicy) =>
             /\ running_pid' = None
             /\ procs'[P] = procs[P]
             /\ procs'[P].estado = "RUNNING"
             /\ ~InSeq(ready_q', P)
        /\ Orphan(P) =>
             /\ ~InSeq(ready_q, P)
             /\ \/ /\ procs'[P] = procs[P]
                   /\ running_pid' # Some(P)
                   /\ ~InSeq(ready_q', P)
                   /\ ran' # Some(P)
                \/ kill_process(P) ]_vars

\* P was dropped by set_policy after one tick, and a later tick has
\* dispatched and returned another process
C9_Witness ==
  \E P \in Pids : \E r \in Pids :
    /\ Orphan(P)
    /\ procs[P].rafaga_restante = procs[P].rafaga_total - 1
    /\ r # P
    /\ ran = Some(r)
    /\ procs[r].inicio_tick > procs[P].inicio_tick
    /\ procs[P].inicio_tick # Unset

(* ------------------------------- C10 ---------------------------------- *)
\* the claim's premise: positive bursts, and a positive quantum under RR
PositiveInputs ==
  /\ \A p \in Pids : procs[p].rafaga_total >= 1
  /\ policy = "RR" => quantum >= 1

\* pid is READY or holds the CPU
Schedulable(pid) ==
  IF pid \in Pids
    THEN procs[pid].estado = "READY" \/ running_pid = Some(pid)
    ELSE FALSE

\* pid has terminated by using up its burst
Finished(pid) ==
  IF pid \in Pids
    THEN procs[pid].estado = "TERMINATED" /\ procs[pid].rafaga_restante <= 0
    ELSE FALSE

(* C10 as stated: once only tick() is called (run N, N = RunTicks, then    *)
(* the session ends), every process has become TERMINATED.                 *)
C10_AllTerminateOriginal ==
  (session = "exit" /\ PositiveInputs) =>
    \A p \in Pids : procs[p].estado = "TERMINATED"

(* C10 amended: once only tick() is called (run N, N = RunTicks, the total  *)
(* burst that can be outstanding), by the end of the run every process     *)
(* that was READY or held the CPU has become TERMINATED, and every process *)
(* that became TERMINATED inside the run did so by burst exhaustion; what  *)
(* is left unterminated is RUNNING off the CPU, dropped there by an        *)
(* earlier set_policy call.                                                *)
C10_SchedulableTerminate ==
  (session = "exit" /\ PositiveInputs) =>
    \A p \in Pids :
      /\ ~Schedulable(p)
      /\ procs[p].estado = "TERMINATED" \/ Orphan(p)
      /\ procs[p].fin_tick > current_tick - RunTicks => Finished(p)

\* every process the driver created was still unfinished when run began and
\* has used up its burst inside the loop, the last one after a preemption
C10_Witness ==
  /\ session = "exit"
  /\ Cardinality(Pids) = MaxProcs
  /\ \A p \in Pids : Finished(p) /\ procs[p].fin_tick > MaxTick
  /\ \E p \in Pids : procs[p].fin_tick - procs[p].inicio_tick > procs[p].rafaga_total

(* ------------------------------- C11 ---------------------------------- *)
(* C11: TERMINATED is absorbing.  A process that is TERMINATED is out of   *)
(* the ready queue and of the running slot, and every step (create, kill,  *)
(* set_policy, tick) leaves a TERMINATED process TERMINATED and returns    *)
(* another pid or none from tick().                                        *)
C11_TerminatedAbsorbing ==
  [][ \A p \in Pids :
        /\ procs'[p].estado = "TERMINATED" =>
             /\ ~InSeq(ready_q', p)
             /\ running_pid' # Some(p)
        /\ procs[p].estado = "TERMINATED" =>
             /\ procs'[p].estado = "TERMINATED"
             /\ ran' # Some(p) ]_vars

\* a process used up its burst, and a later tick has dispatched and
\* returned another one
C11_Witness ==
  \E p \in Pids : \E r \in Pids :
    /\ Finished(p)
    /\ procs[p].fin_tick < current_tick
    /\ r # p
    /\ ran = Some(r)
    /\ procs[r].inicio_tick >= procs[p].fin_tick

(* ------------------- steps of the MemoryManager ----------------------- *)
\* a step in which access_page(pid, page) was called
IsAccess(pid, page) ==
  /\ accesses' = accesses + 1
  /\ HasValue(res')
  /\ res'[1].pid = pid
  /\ res'[1].page = page

\* a step in which access_page was called, missed, and evicted a frame
IsReplacement ==
  /\ accesses' = accesses + 1
  /\ HasValue(res')
  /\ HasValue(res'[1].evicted)

\* no element occurs twice in q
NoRepeats(q) ==
  \A i \in 1 .. Len(q) : \A j \in 1 .. Len(q) : q[i] = q[j] => i = j

(* ------------------------------- C12 ---------------------------------- *)
(* C12: a frame changes its pair only when a fault loads into it, and a    *)
(* fault leaves its pair in the frame it reports; so from the fault until  *)
(* that frame is next chosen for a load the pair is in it, and every       *)
(* access of a pair that is in a frame reports a hit, stamps that frame's  *)
(* last access tick and changes nothing else: not the counters, the queue, *)
(* the policy, the tick or any other frame.                                *)
C12_ResidentAfterFault ==
  [][ /\ \A f \in Fids :
           ( frames'[f].pid # frames[f].pid \/ frames'[f].page # frames[f].page )
           => /\ accesses' = accesses + 1
              /\ HasValue(res')
              /\ ~res'[1].hit
              /\ res'[1].fid = f
      /\ \A pid \in MemPids : \A page \in Pages :
           IsAccess(pid, page) =>
             IF MatchingFids(pid, page) # {}
               THEN /\ res'[1].hit
                    /\ \E f \in MatchingFids(pid, page) :
                         frames' = [frames EXCEPT ![f].last_access_tick = tick_counter]
                    /\ total_page_faults' = total_page_faults
                    /\ total_replacements' = total_replacements
                    /\ fifo_queue' = fifo_queue
                    /\ mem_policy' = mem_policy
                    /\ tick_counter' = tick_counter
               ELSE /\ ~res'[1].hit
                    /\ res'[1].fid \in Fids
                    /\ frames'[res'[1].fid].pid = pid
                    /\ frames'[res'[1].fid].page = page ]_vars

\* a pair loaded before another frame was replaced has just been hit, at a
\* later tick than it was loaded
C12_Witness ==
  /\ HasValue(res)
  /\ res[1].hit
  /\ total_replacements >= 1
  /\ \E f \in Fids : \E g \in Fids :
       /\ f = res[1].at
       /\ frames[f].pid = res[1].pid
       /\ frames[f].page = res[1].page
       /\ frames[f].last_access_tick = tick_counter
       /\ frames[f].loaded_at_tick < frames[g].loaded_at_tick
       /\ frames[g].loaded_at_tick < tick_counter

(* ------------------------------- C13 ---------------------------------- *)
(* C13 as stated: faults = accesses - hits, replacements <= faults, and    *)
(* replacements = faults only where the pool has no free frame.            *)
C13_CountersOriginal ==
  /\ total_page_faults = accesses - hits
  /\ total_replacements <= total_page_faults
  /\ total_replacements = total_page_faults => FreeFids = {}

(* C13 amended: faults = accesses - hits, replacements <= faults, and      *)
(* replacements = faults only while nothing has faulted yet (both are 0):  *)
(* from the first fault on the replacements are fewer than the faults by   *)
(* the number of occupied frames.                                          *)
C13_Counters ==
  /\ total_page_faults = accesses - hits
  /\ total_replacements <= total_page_faults
  /\ total_replacements = total_page_faults - Cardinality(OccupiedFids)
  /\ total_replacements = total_page_faults => total_page_faults = 0

\* the pool is full, there have been hits and replacements, and the
\* replacements are still fewer than the faults
C13_Witness ==
  /\ FreeFids = {}
  /\ hits >= 1
  /\ total_replacements >= 2
  /\ total_replacements < total_page_faults
  /\ Cardinality(Fids) >= 2

(* ------------------------------- C14 ---------------------------------- *)
(* C14: in a manager that has been FIFO since its pool was empty, when the  *)
(* pairs accessed so far are pairwise distinct, the j-th replacement       *)
(* evicts the j-th pair inserted; the first one, at access F + 1, evicts   *)
(* the first pair inserted.                                                *)
C14_FIFOEvictsInInsertionOrder ==
  [][ ( /\ IsReplacement
        /\ HasValue(inserted')
        /\ hits' = 0
        /\ NoRepeats(inserted'[1]) )
      => /\ res'[1].evicted[1] = inserted'[1][total_replacements']
         /\ total_replacements' = accesses' - Cardinality(Fids) ]_vars

\* a pool of two frames has taken four distinct pairs: the second
\* replacement has just evicted the second pair inserted
C14_Witness ==
  /\ Cardinality(Fids) = 2
  /\ HasValue(inserted)
  /\ hits = 0
  /\ inserted[1] = << PairAt(1), PairAt(2), PairAt(3), PairAt(4) >>
  /\ total_replacements = 2
  /\ HasValue(res)
  /\ res[1].evicted = Some(PairAt(2))

(* ------------------------------- C15 ---------------------------------- *)
(* C15: under LRU a fault that finds no free frame loads into the frame of *)
(* least last access tick, and of the frames sharing that tick into the    *)
(* one of lowest frame id; the pair evicted is the one that frame held.    *)
C15_LRUEvictsLeastRecent ==
  [][ ( /\ IsReplacement
        /\ mem_policy = "LRU" )
      => /\ FreeFids = {}
         /\ res'[1].fid \in Fids
         /\ \A g \in Fids :
              \/ frames[res'[1].fid].last_access_tick < frames[g].last_access_tick
              \/ /\ frames[res'[1].fid].last_access_tick = frames[g].last_access_tick
                 /\ res'[1].fid <= g
         /\ res'[1].evicted =
              Some(<< frames[res'[1].fid].pid, frames[res'[1].fid].page >>) ]_vars

\* two frames, one access per tick, accesses A, B, A, C: C has just evicted
\* B, and A is still in its frame
C15_Witness ==
  /\ mem_policy = "LRU"
  /\ Cardinality(Fids) = 2
  /\ accesses = 4
  /\ tick_counter = 4
  /\ hits = 1
  /\ HasValue(res)
  /\ res[1].pid = PairAt(3)[1]
  /\ res[1].page = PairAt(3)[2]
  /\ res[1].evicted = Some(PairAt(2))
  /\ frames[0].pid = PairAt(1)[1]
  /\ frames[0].page = PairAt(1)[2]
  /\ frames[0].loaded_at_tick = 1
  /\ frames[0].last_access_tick = 3
  /\ frames[1].loaded_at_tick = 4

(* ------------------------------- C17 ---------------------------------- *)
\* the queue lists its frames in order of non-decreasing loaded_at_tick
QueueInLoadOrder(q, fs) ==
  \A i \in 1 .. Len(q) : \A j \in 1 .. Len(q) :
    i < j => fs[q[i]].loaded_at_tick <= fs[q[j]].loaded_at_tick

\* every step leaves a FIFO manager's queue in load order, and a FIFO
\* replacement takes a frame of least loaded_at_tick; switched tells
\* whether managers on which set_policy was called after the first load
\* are held to it too
FIFOLoadOrder(switched) ==
  /\ ( mem_policy' = "FIFO" /\ (HasValue(inserted') \/ switched) )
     => QueueInLoadOrder(fifo_queue', frames')
  /\ ( IsReplacement /\ mem_policy = "FIFO" /\ (HasValue(inserted) \/ switched) )
     => \A g \in Fids :
          frames[res'[1].fid].loaded_at_tick <= frames[g].loaded_at_tick

(* C17 as stated: in every reachable FIFO state, set_policy calls or not,  *)
(* the queue lists the occupied frames in order of non-decreasing loaded   *)
(* tick, so a FIFO replacement takes a frame of least loaded tick.         *)
C17_FIFOQueueLoadOrderOriginal == [][FIFOLoadOrder(TRUE)]_vars

(* C17 amended: the same in every reachable FIFO state of a manager on     *)
(* which set_policy has not been called since its first load.              *)
C17_FIFOQueueLoadOrder == [][FIFOLoadOrder(FALSE)]_vars

\* after a replacement at a later tick the queue runs from the frame
\* loaded earlier to the frame just loaded, against the frame order
C17_Witness ==
  /\ mem_policy = "FIFO"
  /\ HasValue(inserted)
  /\ total_replacements >= 1
  /\ fifo_queue = << 1, 0 >>
  /\ frames[1].loaded_at_tick < frames[0].loaded_at_tick
  /\ HasValue(res)
  /\ res[1].fid = 0

(* ------------------------------- C18 ---------------------------------- *)
(* C18: in every reachable FIFO state the queue holds exactly the ids of   *)
(* the occupied frames, each once; and no access_page ever took its victim *)
(* from the empty-queue scan.                                              *)
C18_FIFOQueueIsOccupiedSet ==
  /\ mem_policy = "FIFO" =>
       /\ \A f \in Fids : InSeq(fifo_queue, f) <=> f \in OccupiedFids
       /\ \A i \in 1 .. Len(fifo_queue) : fifo_queue[i] \in Fids
       /\ NoRepeats(fifo_queue)
  /\ HasValue(res) => ~res[1].fallback

\* a FIFO replacement has been made from a queue that set_policy rebuilt
\* after loads the queue had not seen
C18_Witness ==
  /\ mem_policy = "FIFO"
  /\ ~HasValue(inserted)
  /\ FreeFids = {}
  /\ Cardinality(Fids) >= 2
  /\ HasValue(res)
  /\ HasValue(res[1].evicted)
  /\ \E f \in Fids : frames[f].last_access_tick > frames[f].loaded_at_tick
  /\ Len(fifo_queue) = Cardinality(Fids)

(* ------------------------------- C19 ---------------------------------- *)
(* C19: in every reachable state the ready queue holds exactly the pids of *)
(* the READY processes, each once.                                         *)
C19_ReadyQueueIsReadySet ==
  /\ \A i \in 1 .. Len(ready_q) : ready_q[i] \in Pids
  /\ \A p \in Pids : procs[p].estado = "READY" <=> InSeq(ready_q, p)
  /\ \A i \in 1 .. Len(ready_q) : \A j \in 1 .. Len(ready_q) :
       ready_q[i] = ready_q[j] => i = j

\* under SJF after a Round-Robin preemption: the preempted process is
\* queued again, and a killed one has left the queue
C19_Witness ==
  \E p \in Pids : \E r \in Pids :
    /\ policy = "SJF"
    /\ procs[p].estado = "READY"
    /\ procs[p].rafaga_restante < procs[p].rafaga_total
    /\ ready_q = << p >>
    /\ procs[r].estado = "TERMINATED"
    /\ procs[r].rafaga_restante > 0
    /\ procs[r].espera_acumulada >= 1

(* ------------------------------- C20 ---------------------------------- *)
\* the tick charged pid one unit of CPU and no wait
ChargedOnly(pid) ==
  /\ procs'[pid].rafaga_restante = procs[pid].rafaga_restante - 1
  /\ procs'[pid].espera_acumulada = procs[pid].espera_acumulada

\* the tick credited pid one unit of wait and no CPU
WaitedOnly(pid) ==
  /\ procs'[pid].espera_acumulada = procs[pid].espera_acumulada + 1
  /\ procs'[pid].rafaga_restante = procs[pid].rafaga_restante

(* C20: every tick() either charges one CPU unit to a process that is      *)
(* READY or holds the CPU or credits it one unit of wait, never both and   *)
(* never neither; and at the tick() in which a process terminates by burst *)
(* exhaustion (no kill has touched it: a killed process is TERMINATED),    *)
(* finish tick - arrival tick = total burst + accumulated wait.            *)
C20_TurnaroundIdentity ==
  [][ IsTick =>
        \A p \in Pids :
          /\ Schedulable(p) =>
               /\ ChargedOnly(p) \/ WaitedOnly(p)
               /\ ~(ChargedOnly(p) /\ WaitedOnly(p))
          /\ (procs[p].estado # "TERMINATED" /\ procs'[p].estado = "TERMINATED") =>
               /\ procs'[p].rafaga_restante = 0
               /\ procs'[p].fin_tick - procs'[p].llegada_tick =
                    procs'[p].rafaga_total + procs'[p].espera_acumulada ]_vars

\* a process created after the first tick has waited and then used up its burst
C20_Witness ==
  \E p \in Pids :
    /\ Finished(p)
    /\ ran = Some(p)
    /\ procs[p].llegada_tick >= 1
    /\ procs[p].espera_acumulada >= 1
    /\ procs[p].fin_tick = current_tick
    /\ procs[p].fin_tick - procs[p].llegada_tick =
         procs[p].rafaga_total + procs[p].espera_acumulada


(* ------------------------------- C16 ---------------------------------- *)
(* C16: for a process with page count n >= 1 and a non-empty trace T, the  *)
(* page passed to access_page the k-th time the process is reported        *)
(* running is T[(k-1) mod |T|] reduced modulo n, and it lies in [0, n),    *)
(* whatever the sign of the trace elements.                                *)
C16_TracePageInRange ==
  (HasValue(res) /\ trace # << >> /\ runs > 0) =>
     /\ res[1].page = trace[((runs - 1) % Len(trace)) + 1] % npages
     /\ res[1].page \in 0 .. npages - 1


(* ------------------------------- C21 ---------------------------------- *)
(* C21: in every reachable state the number of occupied frames is the      *)
(* fault count minus the replacement count, and no command frees an        *)
(* occupied frame: not an access, advance_tick or set_policy, and not the  *)
(* kill or the termination of the process that owns the page.              *)
C21_OccupiedFramesCounted ==
  [][ /\ Cardinality(OccupiedFids) = total_page_faults - total_replacements
      /\ Cardinality(OccupiedFids') = total_page_faults' - total_replacements'
      /\ Fids' = Fids
      /\ \A f \in Fids : frames[f].pid # NoFrame => frames'[f].pid # NoFrame ]_vars

\* the first process was killed with burst left, a tick that ran nothing
\* has passed since, and the pool is still full of its pages, one of them
\* loaded by a replacement
C21_Witness ==
  /\ FirstPid \in Pids
  /\ procs[FirstPid].estado = "TERMINATED"
  /\ procs[FirstPid].rafaga_restante > 0
  /\ current_tick > procs[FirstPid].fin_tick
  /\ total_replacements >= 1
  /\ FreeFids = {}
  /\ \A f \in Fids : frames[f].pid = FirstPid
  /\ ~HasValue(res)

(* ------------------------------- C22 ---------------------------------- *)
(* C22: in every reachable state no (pid, page) pair is in two frames: two *)
(* distinct occupied frames differ in their pid or in their page.          *)
C22_PairInOneFrame ==
  \A f \in OccupiedFids : \A g \in OccupiedFids :
    (frames[f].pid = frames[g].pid /\ frames[f].page = frames[g].page) => f = g

\* a full pool of two frames or more, after replacements, in which a pair
\* evicted earlier has been loaded again and then hit
C22_Witness ==
  /\ FreeFids = {}
  /\ Cardinality(Fids) >= 2
  /\ total_replacements >= 2
  /\ HasValue(res)
  /\ res[1].hit
  /\ frames[res[1].at].loaded_at_tick > 0
  /\ frames[res[1].at].last_access_tick > frames[res[1].at].loaded_at_tick

=============================================================================
